---- MODULE Spec2Model ----
(***************************************************************************)
(* A model of gocov (src/gocov.go): the path resolver (findPkgs,           *)
(* findFile), the streaming coverage renderer (colorlines and its cut      *)
(* primitive cutAfterIndexN) and the loop of displayCoverage that drives   *)
(* them.                                                                   *)
(*                                                                         *)
(* Strings and byte slices are sequences of byte values (0..255), so that  *)
(* cutting, formatting and escape sequences are computed byte by byte.     *)
(* A Go pointer that may be nil is a sequence of length 0 (nil) or 1.      *)
(***************************************************************************)
EXTENDS Integers, Sequences, FiniteSets, TLC

VARIABLES
    \* ---- cutAfterIndexN called on its own
    cutS,        \* the buffer s
    cutSep,      \* the separator byte
    cutN,        \* the count n
    cutRes,      \* what the call produced
    cutPc,       \* "call" before the call, "done" after it, "off" in the other specifications
    \* ---- colorlines called on its own
    csrc,        \* the source text handed to colorlines
    cblocks,     \* the coverage blocks handed to colorlines
    cres,        \* what the call wrote and how it ended
    cpc,         \* "call", "done" or "off"
    \* ---- the program: main and displayCoverage
    pc,          \* "main", "parse", "findPkgs", "findFile", "readFile", "render", "exit" or "off"
    profiles,    \* the parsed coverage profile, a sequence of [FileName, Blocks]
    golist,      \* what the go list subprocess was asked and what it answered
    invocations, \* how many times the go list subprocess was started
    dirs,        \* the package map findPkgs returned
    k,           \* index of the profile entry being handled
    file,        \* the path findFile resolved for entry k
    contents,    \* the bytes os.ReadFile returned, one entry per file read so far
    stdout,      \* every byte written to standard output
    err,         \* the error displayCoverage returned (printed on standard error)
    failedAt,    \* index of the entry whose resolution or read failed, 0 when none
    exit         \* the exit status of the process, -1 while it runs

cutVars == <<cutS, cutSep, cutN, cutRes, cutPc>>
colorVars == <<csrc, cblocks, cres, cpc>>
mainVars == <<pc, profiles, golist, invocations, dirs, k, file, contents, stdout,
              err, failedAt, exit>>
vars == <<cutVars, colorVars, mainVars>>

-----------------------------------------------------------------------------
(* Bytes *)

TAB == 9
NL == 10

\* The two spaces that replace a tab.
TwoSpaces == <<32, 32>>

\* const reset = "\x1b[0m"
reset == <<27, 91, 48, 109>>

RECURSIVE Concat(_)
\* The concatenation of a sequence of byte sequences.
Concat(ss) == IF ss = <<>> THEN <<>> ELSE Head(ss) \o Concat(Tail(ss))

\* Whether pat occurs in b starting at (1-based) position i.
StartsAt(b, i, pat) ==
    /\ i + Len(pat) - 1 <= Len(b)
    /\ \A j \in 1..Len(pat) : b[i + j - 1] = pat[j]

\* strings.HasPrefix
HasPrefix(b, pat) == StartsAt(b, 1, pat)

RECURSIVE Dec(_)
\* The decimal digits of a natural number, as "%d" formats it.
Dec(x) == IF x < 10 THEN <<48 + x>> ELSE Dec(x \div 10) \o <<48 + (x % 10)>>

RECURSIVE ReplaceAll(_, _, _)
\* bytes.ReplaceAll for a one-byte pattern.
ReplaceAll(b, old, new) ==
    IF b = <<>> THEN <<>>
    ELSE (IF Head(b) = old THEN new ELSE <<Head(b)>>) \o ReplaceAll(Tail(b), old, new)

-----------------------------------------------------------------------------
(* cutAfterIndexN *)

RECURSIVE CutLoop(_, _, _, _)
\* The loop of cutAfterIndexN: i is the 0-based index the loop stands at and n
\* the separators still to pass; the value is i when the loop ends.
CutLoop(b, bsep, n, i) ==
    IF i < Len(b) - 1
    THEN IF b[i + 1] = bsep
         THEN IF n - 1 = 0 THEN i ELSE CutLoop(b, bsep, n - 1, i + 1)
         ELSE CutLoop(b, bsep, n, i + 1)
    ELSE i

\* cutAfterIndexN(s, sep, n).  For n <= 0 the whole buffer is "before" and
\* "after" is nil.  Otherwise the split position is the loop's i plus one;
\* s[:i], s[i:] panic (slice bounds out of range) when i > len(s).
\* i is the split position, panic whether the slicing panicked.
cutAfterIndexN(b, bsep, n) ==
    IF n <= 0
    THEN [before |-> b, after |-> <<>>, i |-> Len(b), panic |-> FALSE]
    ELSE LET i == CutLoop(b, bsep, n, 0) + 1
         IN  IF i > Len(b)
             THEN [before |-> <<>>, after |-> <<>>, i |-> i, panic |-> TRUE]
             ELSE [before |-> SubSeq(b, 1, i), after |-> SubSeq(b, i + 1, Len(b)),
                   i |-> i, panic |-> FALSE]

-----------------------------------------------------------------------------
(* Formatting: trueColor, Bg, Fg and fmt.Printf *)

rgb(r, g, b) == [R |-> r, G |-> g, B |-> b]

red == rgb(48, 26, 31)
green == rgb(18, 38, 30)
yellow == rgb(204, 136, 26)
dark == rgb(13, 17, 23)

\* "\x1b[48;2;%d;%d;%dm": the escape sequence that sets the background colour.
BgPrefix(tc) ==
    <<27, 91, 52, 56, 59, 50, 59>> \o Dec(tc.R) \o <<59>> \o Dec(tc.G) \o <<59>>
        \o Dec(tc.B) \o <<109>>

\* "\x1b[38;2;%d;%d;%dm": the escape sequence that sets the foreground colour.
FgPrefix(tc) ==
    <<27, 91, 51, 56, 59, 50, 59>> \o Dec(tc.R) \o <<59>> \o Dec(tc.G) \o <<59>>
        \o Dec(tc.B) \o <<109>>

\* trueColor.Bg: Sprintf("\x1b[48;2;%d;%d;%dm%s%s", R, G, B, msg, reset)
Bg(tc, msg) == BgPrefix(tc) \o msg \o reset

\* trueColor.Fg: Sprintf("\x1b[38;2;%d;%d;%dm%s%s", R, G, B, msg, reset)
Fg(tc, msg) == FgPrefix(tc) \o msg \o reset

\* The flag bytes of a format directive: '#', '0', '+', '-' and ' '.
FmtFlags == {35, 48, 43, 45, 32}
\* The digits '0'..'9' of a width or a precision.
FmtDigits == 48..57

\* The element of a set of one element; The({e : x \in {v}}) is e with x
\* standing for the value of v.
The(S) == CHOOSE x \in S : TRUE

RECURSIVE SkipBytes(_, _, _)
\* The first position at or after i whose byte is not in set (Len(f)+1 if none).
SkipBytes(f, i, set) ==
    IF i <= Len(f) /\ f[i] \in set THEN SkipBytes(f, i + 1, set) ELSE i

\* The texts fmt writes for a malformed directive: "%!(NOVERB)",
\* "%!(BADWIDTH)", "%!(BADPREC)", and "(BADINDEX)" and "(MISSING)" after "%!v".
NOVERB == <<37, 33, 40, 78, 79, 86, 69, 82, 66, 41>>
BADWIDTH == <<37, 33, 40, 66, 65, 68, 87, 73, 68, 84, 72, 41>>
BADPREC == <<37, 33, 40, 66, 65, 68, 80, 82, 69, 67, 41>>
BADINDEX == <<40, 66, 65, 68, 73, 78, 68, 69, 88, 41>>
MISSING == <<40, 77, 73, 83, 83, 73, 78, 71, 41>>

RECURSIVE ParseNumLoop(_, _, _, _, _)
\* The loop of fmt's parsenum over f[p..last]: a number above 10^6 met before
\* a further digit is an overflow, which gives up at the end of the range.
ParseNumLoop(f, p, last, num, isnum) ==
    IF p <= last /\ f[p] \in FmtDigits
    THEN IF num > 1000000
         THEN [num |-> 0, isnum |-> FALSE, newi |-> last + 1]
         ELSE ParseNumLoop(f, p + 1, last, num * 10 + (f[p] - 48), TRUE)
    ELSE [num |-> num, isnum |-> isnum, newi |-> p]

\* fmt's parsenum(s, start, end), the range being the positions start..last.
parsenum(f, start, last) ==
    IF start > last THEN [num |-> 0, isnum |-> FALSE, newi |-> last + 1]
    ELSE ParseNumLoop(f, start, last, 0, FALSE)

RECURSIVE FirstByte(_, _, _)
\* The first position at or after i that holds the byte x (Len(f)+1 if none).
FirstByte(f, i, x) ==
    IF i <= Len(f) /\ f[i] # x THEN FirstByte(f, i + 1, x) ELSE i

\* fmt's parseArgNumber on the text that starts with the '[' at position p:
\* the index, the number of bytes to skip, and whether "[n]" was well formed.
parseArgNumber(f, p) ==
    LET j == FirstByte(f, p + 1, 93)
        n == parsenum(f, p + 1, j - 1)
    IN  IF Len(f) - p + 1 < 3 THEN [index |-> 0, wid |-> 1, ok |-> FALSE]
        ELSE IF j > Len(f) THEN [index |-> 0, wid |-> 1, ok |-> FALSE]
        ELSE IF ~n.isnum \/ n.newi # j
        THEN [index |-> 0, wid |-> j - p + 1, ok |-> FALSE]
        ELSE [index |-> n.num - 1, wid |-> j - p + 1, ok |-> TRUE]

\* fmt's argNumber at position p when Printf has numArgs operands: where the
\* parse goes on, whether an index was found, and whether it was a good one.
argNumber(f, p, numArgs) ==
    IF p > Len(f) \/ f[p] # 91 THEN [newi |-> p, found |-> FALSE, good |-> TRUE]
    ELSE LET a == parseArgNumber(f, p)
         IN  IF a.ok /\ 0 <= a.index /\ a.index < numArgs
             THEN [newi |-> p + a.wid, found |-> TRUE, good |-> TRUE]
             ELSE [newi |-> p + a.wid, found |-> a.ok, good |-> FALSE]

\* A continuation byte of UTF-8.
IsCont(f, p) == p <= Len(f) /\ f[p] \in 128..191

\* The number of bytes of the UTF-8 encoding that starts at position p, 0
\* when the bytes there are no valid encoding (utf8.DecodeRuneInString).
RuneSize(f, p) ==
    LET b == f[p]
        second(S) == p + 1 <= Len(f) /\ f[p + 1] \in S
    IN  IF b < 128 THEN 1
        ELSE IF b \in 194..223 THEN (IF IsCont(f, p + 1) THEN 2 ELSE 0)
        ELSE IF b \in 224..239
        THEN (IF /\ second(IF b = 224 THEN 160..191
                         ELSE IF b = 237 THEN 128..159 ELSE 128..191)
                 /\ IsCont(f, p + 2)
              THEN 3 ELSE 0)
        ELSE IF b \in 240..244
        THEN (IF /\ second(IF b = 240 THEN 144..191
                         ELSE IF b = 244 THEN 128..143 ELSE 128..191)
                 /\ IsCont(f, p + 2) /\ IsCont(f, p + 3)
              THEN 4 ELSE 0)
        ELSE 0

\* The verb of a directive, at position p: a directive with no verb ends the
\* format; "%%" is '%'; any other verb, one UTF-8 rune (U+FFFD when the bytes
\* are ill formed), has no operand to print, or a bad argument index.  bad is
\* what the width and the precision have written before.
DirectiveVerb(f, p, good, bad) ==
    IF p > Len(f) THEN [out |-> bad \o NOVERB, next |-> p, stop |-> TRUE]
    ELSE The({LET verb == IF size = 0 THEN <<239, 191, 189>>
                          ELSE SubSeq(f, p, p + size - 1)
              IN  [out |-> bad \o (IF verb = <<37>> THEN <<37>>
                                   ELSE IF ~good THEN <<37, 33>> \o verb \o BADINDEX
                                   ELSE <<37, 33>> \o verb \o MISSING),
                   next |-> p + (IF size = 0 THEN 1 ELSE size),
                   stop |-> FALSE]
              : size \in {RuneSize(f, p)}})

\* The argument index that may stand before the verb; none is looked for
\* right after an index (afterIndex).
DirectiveIndex(f, p, afterIndex, good, bad) ==
    IF afterIndex THEN DirectiveVerb(f, p, good, bad)
    ELSE The({DirectiveVerb(f, a.newi, good /\ a.good, bad)
              : a \in {argNumber(f, p, 0)}})

\* The precision, if a '.' stands at position p: an argument index and '*',
\* which asks for an operand that is missing, or a number.  A '.' right after
\* an argument index makes the index a bad one.
DirectivePrec(f, p, afterIndex, good, bad) ==
    IF p > Len(f) \/ f[p] # 46 THEN DirectiveIndex(f, p, afterIndex, good, bad)
    ELSE The({IF a.newi <= Len(f) /\ f[a.newi] = 42
              THEN DirectiveIndex(f, a.newi + 1, FALSE,
                                  good /\ ~afterIndex /\ a.good, bad \o BADPREC)
              ELSE The({DirectiveIndex(f, n.newi, a.found,
                                       good /\ ~afterIndex /\ a.good, bad)
                        : n \in {parsenum(f, a.newi, Len(f))}})
              : a \in {argNumber(f, p + 1, 0)}})

\* The argument index and the width, from position p on: '*' asks for an
\* operand that is missing, a number after an argument index makes the index
\* a bad one.
DirectiveWidth(f, p) ==
    The({IF a.newi <= Len(f) /\ f[a.newi] = 42
         THEN DirectivePrec(f, a.newi + 1, FALSE, a.good, BADWIDTH)
         ELSE The({DirectivePrec(f, n.newi, a.found,
                                 a.good /\ ~(a.found /\ n.isnum), <<>>)
                   : n \in {parsenum(f, a.newi, Len(f))}})
         : a \in {argNumber(f, p, 0)}})

\* One directive of the format of a Printf that has no operands, p being the
\* position after its '%': what is written for it, where the format goes on,
\* and whether the format ends here.  The flags are skipped, then the width,
\* the precision and the verb are read in turn.
Directive(f, p) ==
    The({DirectiveWidth(f, q) : q \in {SkipBytes(f, p, FmtFlags)}})

RECURSIVE PrintfFrom(_, _)
\* What fmt.Printf(format) writes from position i on when it is given no
\* operands: the text between directives as it is, and each directive as
\* Directive has it.
PrintfFrom(f, i) ==
    IF i > Len(f) THEN <<>>
    ELSE IF f[i] # 37 THEN <<f[i]>> \o PrintfFrom(f, i + 1)
    ELSE The({d.out \o (IF d.stop THEN <<>> ELSE PrintfFrom(f, d.next))
              : d \in {Directive(f, i + 1)}})

\* fmt.Printf(format) with no operands: the format string is interpreted.
Printf(format) == The({PrintfFrom(f, 1) : f \in {format}})

\* fmt.Printf("%s", b): the bytes of b as they are.
PrintfS(b) == b

-----------------------------------------------------------------------------
(* colorlines *)

\* The state of colorlines between two blocks: the unconsumed source, prevEnd,
\* what has been written, and whether a cut panicked.  cuts and paints record
\* the calls made: every call of cutAfterIndexN with its buffer, count and
\* result, and every colored write with the chunk it was given.
ColorStart(src) ==
    [src |-> ReplaceAll(src, TAB, TwoSpaces), prevEnd |-> 0, out |-> <<>>,
     panic |-> FALSE, cuts |-> <<>>, paints |-> <<>>]

CutRecord(b, n, c) ==
    [s |-> b, n |-> n, before |-> c.before, after |-> c.after, panic |-> c.panic]

\* One iteration of the loop over the blocks, cutting n1 lines to write as
\* they are and then n2 lines to write on the background of the block.
ColorStep(st, block, n1, n2) ==
    LET c1 == cutAfterIndexN(st.src, NL, n1)
        c2 == cutAfterIndexN(c1.after, NL, n2)
        tc == IF block.Count = 0 THEN red ELSE green
        written == Printf(Bg(tc, c2.before))
    IN  IF c1.panic
        THEN [st EXCEPT !.panic = TRUE, !.cuts = Append(@, CutRecord(st.src, n1, c1))]
        ELSE IF c2.panic
        THEN [st EXCEPT !.panic = TRUE,
                        !.src = c1.after,
                        !.out = @ \o PrintfS(c1.before),
                        !.cuts = @ \o <<CutRecord(st.src, n1, c1),
                                        CutRecord(c1.after, n2, c2)>>]
        ELSE [src |-> c2.after,
              prevEnd |-> block.EndLine,
              out |-> st.out \o PrintfS(c1.before) \o written,
              panic |-> FALSE,
              cuts |-> st.cuts \o <<CutRecord(st.src, n1, c1),
                                    CutRecord(c1.after, n2, c2)>>,
              paints |-> Append(st.paints,
                                [Count |-> block.Count, chunk |-> c2.before,
                                 written |-> written])]

\* The loop body with the lines up to StartLine-1 written as they are and the
\* block colored from its StartLine on.
colorBlockFromStartLine(st, block) ==
    ColorStep(st, block, block.StartLine - st.prevEnd - 1,
              block.EndLine - block.StartLine)

\* The body of the loop of colorlines: StartLine-prevEnd lines are written as
\* they are, the next EndLine-StartLine lines on the red or green background.
colorBlock(st, block) ==
    ColorStep(st, block, block.StartLine - st.prevEnd,
              block.EndLine - block.StartLine)

RECURSIVE ColorLoop(_, _, _)
\* The loop over blocks[j..]; a panic ends the function where it stands.
ColorLoop(st, blocks, j) ==
    IF j > Len(blocks) \/ st.panic THEN st
    ELSE ColorLoop(colorBlock(st, blocks[j]), blocks, j + 1)

\* colorlines(src, blocks): tabs replaced, the loop, then the rest of the
\* source behind a reset and followed by a newline.
colorlines(src, blocks) ==
    LET st == ColorLoop(ColorStart(src), blocks, 1)
    IN  IF ~st.panic /\ Len(st.src) # 0
        THEN [st EXCEPT !.out = @ \o reset \o st.src \o <<NL>>, !.src = <<>>]
        ELSE st

-----------------------------------------------------------------------------
(* Paths.  File names, import paths and directories are byte sequences, and *)
(* the path functions are those of a Unix system.                           *)

RECURSIVE LastSlash(_, _)
\* The last position at or before i that holds '/', 0 when there is none.
LastSlash(p, i) == IF i = 0 \/ p[i] = 47 THEN i ELSE LastSlash(p, i - 1)

RECURSIVE TrimSlashes(_)
\* p without its trailing slashes.
TrimSlashes(p) ==
    IF p # <<>> /\ p[Len(p)] = 47 THEN TrimSlashes(SubSeq(p, 1, Len(p) - 1)) ELSE p

RECURSIVE BackUp(_, _, _)
\* Clean's step back over one element of out: the length that is left when
\* the bytes after position w are dropped down to the last '/' above dotdot.
BackUp(out, w, dotdot) ==
    IF w > dotdot /\ out[w + 1] # 47 THEN BackUp(out, w - 1, dotdot) ELSE w

\* The first position at or after r that holds '/' (Len(p)+1 if none).
ElementEnd(p, r) == FirstByte(p, r, 47)

RECURSIVE CleanLoop(_, _, _, _, _)
\* The loop of Clean: r is the next position of p to read, out what has been
\* written, dotdot the length of out that ".." may not step back over.  An
\* empty element and "." are dropped, ".." removes the element before it (or
\* is kept at the front of a path that is not rooted), any other element is
\* written after a '/' that separates it from what is there.
CleanLoop(p, rooted, r, out, dotdot) ==
    LET n == Len(p)
        w == Len(out)
        endsAt(q) == q = n + 1 \/ p[q] = 47
    IN  IF r > n THEN out
        ELSE IF p[r] = 47 THEN CleanLoop(p, rooted, r + 1, out, dotdot)
        ELSE IF p[r] = 46 /\ endsAt(r + 1)
        THEN CleanLoop(p, rooted, r + 1, out, dotdot)
        ELSE IF p[r] = 46 /\ p[r + 1] = 46 /\ endsAt(r + 2)
        THEN IF w > dotdot
             THEN The({CleanLoop(p, rooted, r + 2, o, dotdot)
                       : o \in {SubSeq(out, 1, BackUp(out, w - 1, dotdot))}})
             ELSE IF ~rooted
             THEN The({CleanLoop(p, rooted, r + 2, o, Len(o))
                       : o \in {(IF w > 0 THEN out \o <<47>> ELSE out) \o <<46, 46>>}})
             ELSE CleanLoop(p, rooted, r + 2, out, dotdot)
        ELSE The({The({CleanLoop(p, rooted, e, o, dotdot)
                       : o \in {(IF (rooted /\ w # 1) \/ (~rooted /\ w # 0)
                                 THEN out \o <<47>> ELSE out) \o SubSeq(p, r, e - 1)}})
                  : e \in {ElementEnd(p, r)}})

\* path.Clean: the shortest path that names what path names; "." when that
\* is the empty path.
Clean(path) ==
    The({IF p = <<>> THEN <<46>>
         ELSE The({IF out = <<>> THEN <<46>> ELSE out
                   : out \in {IF p[1] = 47 THEN CleanLoop(p, TRUE, 2, <<47>>, 1)
                              ELSE CleanLoop(p, FALSE, 1, <<>>, 0)}})
         : p \in {path}})

\* path.Dir: all but the last element, cleaned.
Dir(p) == Clean(SubSeq(p, 1, LastSlash(p, Len(p))))

\* path.Base: the last element; "." for the empty path, "/" for slashes only.
Base(p) ==
    IF p = <<>> THEN <<46>>
    ELSE LET q == TrimSlashes(p)
         IN  IF q = <<>> THEN <<47>>
             ELSE SubSeq(q, LastSlash(q, Len(q)) + 1, Len(q))

\* filepath.Join of two elements: from the first one that is not empty on,
\* the elements joined by '/' and cleaned; "" when both are empty.
Join(a, b) ==
    IF a # <<>> THEN Clean(a \o <<47>> \o b)
    ELSE IF b # <<>> THEN Clean(b)
    ELSE <<>>

\* filepath.IsAbs on a Unix system.
IsAbs(p) == HasPrefix(p, <<47>>)

\* The test findPkgs and findFile share: a relative or an absolute path.
IsRelOrAbs(p) == HasPrefix(p, <<46>>) \/ IsAbs(p)

-----------------------------------------------------------------------------
(* Errors and the package map *)

\* An error value: kind "nil" is no error; text is the message, or the
\* operand of the message for the kinds built with fmt.Errorf.
NoError == [kind |-> "nil", text |-> <<>>]
\* errors.New(msg): the message is msg.
ErrorsNew(msg) == [kind |-> "errors.New", text |-> msg]
\* fmt.Errorf("did not find package for %s in go list output", file)
ErrNotFound(f) == [kind |-> "did not find package", text |-> f]
\* fmt.Errorf("can't read %q: %v", fn, err)
ErrRead(fn) == [kind |-> "can't read", text |-> fn]
\* fmt.Errorf("cannot run go list: %v\n%s", err, stderr.Bytes())
ErrGoList == [kind |-> "cannot run go list", text |-> <<>>]
\* fmt.Errorf("decoding go list json: %v", err)
ErrDecode == [kind |-> "decoding go list json", text |-> <<>>]
\* A run-time panic: the process prints the panic and ends with status 2.
ErrPanic == [kind |-> "panic", text |-> <<>>]
\* What main writes to standard error when it ends before displayCoverage:
\* usageMessage, "failed to open %q: %v\n", and the error of
\* cover.ParseProfilesFromReader.
ErrUsage == [kind |-> "usage", text |-> <<>>]
ErrOpen == [kind |-> "failed to open", text |-> <<>>]
ErrParse == [kind |-> "parse profiles", text |-> <<>>]

\* type Pkg struct: Error is nil (<<>>) or points to a struct with Err.
Pkg(importPath, dir, error) == [ImportPath |-> importPath, Dir |-> dir, Error |-> error]

\* make(map[string]*Pkg)
EmptyMap == [x \in {} |-> <<>>]
\* pkgs[key] = v
MapPut(m, key, v) == [x \in DOMAIN m \cup {key} |-> IF x = key THEN v ELSE m[x]]
\* pkgs[key]: the nil pointer when the key is absent.
MapGet(m, key) == IF key \in DOMAIN m THEN m[key] ELSE <<>>

\* What findPkgs returns as its map: a nil map or a map.
NilMap == [isNil |-> TRUE, m |-> EmptyMap]
TheMap(m) == [isNil |-> FALSE, m |-> m]

-----------------------------------------------------------------------------
(* findPkgs *)

RECURSIVE CollectPkgs(_, _, _, _)
\* The first loop of findPkgs over profiles[j..]: the placeholder map and the
\* list of package paths in first-seen order.
CollectPkgs(profs, j, pkgs, list) ==
    IF j > Len(profs) THEN [pkgs |-> pkgs, list |-> list]
    ELSE LET fn == profs[j].FileName
             pkg == Dir(fn)
         IN  IF IsRelOrAbs(fn) THEN CollectPkgs(profs, j + 1, pkgs, list)
             ELSE IF pkg \in DOMAIN pkgs THEN CollectPkgs(profs, j + 1, pkgs, list)
             ELSE CollectPkgs(profs, j + 1, MapPut(pkgs, pkg, <<>>), Append(list, pkg))

RECURSIVE DecodeBreak(_, _, _)
\* The decoding loop with a malformed record ending the loop like the end of
\* the stream: the records decoded so far are returned with no error.
DecodeBreak(pkgs, stream, j) ==
    IF j > Len(stream) \/ stream[j].bad THEN [dirs |-> TheMap(pkgs), err |-> NoError]
    ELSE DecodeBreak(MapPut(pkgs, stream[j].pkg.ImportPath, <<stream[j].pkg>>),
                     stream, j + 1)

RECURSIVE Decode(_, _, _)
\* The decoding loop of findPkgs over stream[j..]: the end of the stream
\* returns the map, a malformed record returns nil and an error, a record is
\* stored under its import path.
Decode(pkgs, stream, j) ==
    IF j > Len(stream) THEN [dirs |-> TheMap(pkgs), err |-> NoError]
    ELSE IF stream[j].bad THEN [dirs |-> NilMap, err |-> ErrDecode]
    ELSE Decode(MapPut(pkgs, stream[j].pkg.ImportPath, <<stream[j].pkg>>),
                stream, j + 1)

\* findPkgs with go list run whenever it is reached, also for an empty list.
findPkgsAlwaysRun(profs, outcome) ==
    LET c == CollectPkgs(profs, 1, EmptyMap, <<>>)
        d == Decode(c.pkgs, outcome.stream, 1)
    IN  IF outcome.runErr
        THEN [dirs |-> NilMap, err |-> ErrGoList, invoked |-> TRUE, list |-> c.list]
        ELSE [dirs |-> d.dirs, err |-> d.err, invoked |-> TRUE, list |-> c.list]

\* findPkgs with the decoding loop that breaks at a malformed record.
findPkgsPartial(profs, outcome) ==
    LET c == CollectPkgs(profs, 1, EmptyMap, <<>>)
        d == DecodeBreak(c.pkgs, outcome.stream, 1)
    IN  IF Len(c.list) = 0
        THEN [dirs |-> TheMap(c.pkgs), err |-> NoError, invoked |-> FALSE, list |-> c.list]
        ELSE IF outcome.runErr
        THEN [dirs |-> NilMap, err |-> ErrGoList, invoked |-> TRUE, list |-> c.list]
        ELSE [dirs |-> d.dirs, err |-> d.err, invoked |-> TRUE, list |-> c.list]

\* findPkgs(profiles).  outcome is what the go list subprocess does if it is
\* run: runErr when cmd.Output fails, else stream, its standard output as a
\* sequence of JSON values, each a package record or malformed (bad).
\* invoked tells whether the subprocess was run, list what it was asked.
findPkgs(profs, outcome) ==
    LET c == CollectPkgs(profs, 1, EmptyMap, <<>>)
        d == Decode(c.pkgs, outcome.stream, 1)
    IN  IF Len(c.list) = 0
        THEN [dirs |-> TheMap(c.pkgs), err |-> NoError, invoked |-> FALSE, list |-> c.list]
        ELSE IF outcome.runErr
        THEN [dirs |-> NilMap, err |-> ErrGoList, invoked |-> TRUE, list |-> c.list]
        ELSE [dirs |-> d.dirs, err |-> d.err, invoked |-> TRUE, list |-> c.list]

-----------------------------------------------------------------------------
(* findFile *)

\* findFile with the package's error looked at before its directory.
findFileErrorFirst(pkgs, f) ==
    IF IsRelOrAbs(f) THEN [path |-> f, err |-> NoError]
    ELSE LET pkg == MapGet(pkgs, Dir(f))
         IN  IF pkg # <<>> /\ pkg[1].Error # <<>>
             THEN [path |-> <<>>, err |-> ErrorsNew(pkg[1].Error[1].Err)]
             ELSE IF pkg # <<>> /\ pkg[1].Dir # <<>>
             THEN [path |-> Join(pkg[1].Dir, Base(f)), err |-> NoError]
             ELSE [path |-> <<>>, err |-> ErrNotFound(f)]

\* findFile with no test for a nil package: a missing package is read as one
\* with an empty directory and no error, and the base name alone is joined.
findFileNoNilCheck(pkgs, f) ==
    IF IsRelOrAbs(f) THEN [path |-> f, err |-> NoError]
    ELSE LET pkg == MapGet(pkgs, Dir(f))
         IN  IF pkg = <<>> THEN [path |-> Join(<<>>, Base(f)), err |-> NoError]
             ELSE IF pkg[1].Dir # <<>>
             THEN [path |-> Join(pkg[1].Dir, Base(f)), err |-> NoError]
             ELSE IF pkg[1].Error # <<>>
             THEN [path |-> <<>>, err |-> ErrorsNew(pkg[1].Error[1].Err)]
             ELSE [path |-> <<>>, err |-> ErrNotFound(f)]

\* findFile(pkgs, file): the path of the file, or an error.
findFile(pkgs, f) ==
    IF IsRelOrAbs(f) THEN [path |-> f, err |-> NoError]
    ELSE LET pkg == MapGet(pkgs, Dir(f))
         IN  IF pkg # <<>> /\ pkg[1].Dir # <<>>
             THEN [path |-> Join(pkg[1].Dir, Base(f)), err |-> NoError]
             ELSE IF pkg # <<>> /\ pkg[1].Error # <<>>
             THEN [path |-> <<>>, err |-> ErrorsNew(pkg[1].Error[1].Err)]
             ELSE [path |-> <<>>, err |-> ErrNotFound(f)]

-----------------------------------------------------------------------------
(* Inputs: the bounded sets the specifications draw from *)

MaxCutLen == 4
MaxCutN == 3
MaxLines == 3
MaxBlocks == 2
MaxProfiles == 2
MaxRecords == 2

\* All sequences over S of length at most n.
SeqsUpTo(S, n) == UNION {[1..m -> S] : m \in 0..n}

\* type cover.ProfileBlock, the fields the program reads.
Block(s, e, c) == [StartLine |-> s, EndLine |-> e, Count |-> c]

\* ---- cutAfterIndexN: buffers over 'a' and '\n', either byte as separator.
CutBuffers == SeqsUpTo({97, NL}, MaxCutLen)
CutSeps == {NL, 97}
CutCounts == (0 - 1)..MaxCutN

\* ---- colorlines: sources made of whole lines "a\n", "\tb\n" and "%d\n",
\* with or without a last line "%" that has no newline.
Lines == {<<97, NL>>, <<TAB, 98, NL>>, <<37, 100, NL>>}
Tails == {<<>>, <<37>>}
Sources == {Concat(ls) \o tl : ls \in SeqsUpTo(Lines, MaxLines), tl \in Tails}

\* Line numbers of blocks run to one past the longest source.
MaxLineNo == MaxLines + 1

\* Block lists as cover.ParseProfiles delivers them: 1-based lines,
\* StartLine <= EndLine, sorted, a block starting no earlier than the line the
\* previous one ends on.
BlockOrdered(bs) ==
    /\ \A j \in 1..Len(bs) : bs[j].StartLine <= bs[j].EndLine
    /\ \A j \in 1..(Len(bs) - 1) : bs[j].EndLine <= bs[j + 1].StartLine
BlockSet == {Block(s, e, c) : s \in 1..MaxLineNo, e \in 1..MaxLineNo, c \in {0, 1}}
BlockLists == {bs \in SeqsUpTo(BlockSet, MaxBlocks) : BlockOrdered(bs)}

\* The file and the block of the example: eight lines, one uncovered block
\* from line 3 to line 6.
EightLines == Concat([j \in 1..8 |-> <<97, NL>>])
EightLinesBlocks == <<Block(3, 6, 0)>>

\* Lines that hold a format directive of each kind fmt tells apart: a width
\* and a precision taken from an operand ("%*d", "%.*d"), an argument index
\* ("%[1]d"), a width above 10^6 ("%12345678d"), a verb that is a rune of two
\* bytes ("%" followed by U+00E9) and one that is no UTF-8 (the byte 0xFF).
\* Each stands as line 2 of three lines, under one block over that line.
FormatLines ==
    {<<37, 42, 100, NL>>,
     <<37, 46, 42, 100, NL>>,
     <<37, 91, 49, 93, 100, NL>>,
     <<37, 49, 50, 51, 52, 53, 54, 55, 56, 100, NL>>,
     <<37, 195, 169, NL>>,
     <<37, 255, NL>>}
FormatInputs ==
    {<<<<97, NL>> \o l \o <<98, NL>>, <<Block(1, 2, c)>>>> : l \in FormatLines, c \in {0, 1}}

ColorInputs ==
    (Sources \X BlockLists) \cup {<<EightLines, EightLinesBlocks>>} \cup FormatInputs

\* ---- the program: a profile names each file once, sorted by file name
\* (cover.ParseProfiles); the files are "./f", "/f", "p/f", "p/g" and "q/f".
FileNames == {<<46, 47, 102>>, <<47, 102>>, <<112, 47, 102>>, <<112, 47, 103>>,
              <<113, 47, 102>>}
MainBlockLists == {<<Block(1, 2, 0)>>, <<Block(1, 1, 1), Block(2, 2, 0)>>}
ProfileSet == [FileName : FileNames, Blocks : MainBlockLists]

RECURSIVE Less(_, _)
\* a < b as Go compares strings: byte by byte.
Less(a, b) ==
    IF b = <<>> THEN FALSE
    ELSE IF a = <<>> THEN TRUE
    ELSE IF Head(a) # Head(b) THEN Head(a) < Head(b)
    ELSE Less(Tail(a), Tail(b))

ProfileLists ==
    {ps \in SeqsUpTo(ProfileSet, MaxProfiles) :
        \A j \in 1..(Len(ps) - 1) : Less(ps[j].FileName, ps[j + 1].FileName)}

\* What go list may print: records for the packages "p" and "q", with a
\* directory "/d" or "/", with the error "build failed", or with both; and
\* malformed values.
BuildFailed == <<98, 117, 105, 108, 100, 32, 102, 97, 105, 108, 101, 100>>
PkgRecords ==
    {Pkg(ip, d, e) : ip \in {<<112>>, <<113>>},
                     d \in {<<>>, <<47, 100>>, <<47>>},
                     e \in {<<>>, <<[Err |-> BuildFailed]>>}}
    \ {Pkg(ip, <<>>, <<>>) : ip \in {<<112>>, <<113>>}}
Malformed == [bad |-> TRUE, pkg |-> Pkg(<<>>, <<>>, <<>>)]
StreamItems == {[bad |-> FALSE, pkg |-> r] : r \in PkgRecords} \cup {Malformed}
GoListOutcomes ==
    {[runErr |-> TRUE, stream |-> <<>>]}
    \cup {[runErr |-> FALSE, stream |-> st] : st \in SeqsUpTo(StreamItems, MaxRecords)}

\* How the command line and os.Open may turn out: a flag that makes
\* flag.Parse call usage, no argument (standard input is read), an argument
\* that os.Open opens, and one it fails to open.
ArgOutcomes == {"usage", "stdin", "opened", "open failed"}

\* What os.ReadFile may return: an error, or the two lines "a\n\tb\n".
MainSource == <<97, NL, TAB, 98, NL>>
ReadOutcomes == {[ok |-> FALSE, data |-> <<>>], [ok |-> TRUE, data |-> MainSource]}

-----------------------------------------------------------------------------
(* The values of the variables a specification does not use *)

NotRun == [invoked |-> FALSE, list |-> <<>>, runErr |-> FALSE, stream |-> <<>>]

CutOff ==
    /\ cutS = <<>> /\ cutSep = NL /\ cutN = 0 /\ cutPc = "off"
    /\ cutRes = cutAfterIndexN(<<>>, NL, 0)
ColorOff ==
    /\ csrc = <<>> /\ cblocks = <<>> /\ cpc = "off"
    /\ cres = ColorStart(<<>>)
MainOff ==
    /\ pc = "off" /\ profiles = <<>> /\ golist = NotRun /\ invocations = 0
    /\ dirs = NilMap /\ k = 0 /\ file = <<>> /\ contents = <<>> /\ stdout = <<>>
    /\ err = NoError /\ failedAt = 0 /\ exit = 0 - 1

-----------------------------------------------------------------------------
(* SpecCut: cutAfterIndexN applied to every buffer, separator and count *)

InitCut ==
    /\ cutS \in CutBuffers /\ cutSep \in CutSeps /\ cutN \in CutCounts
    /\ cutPc = "call"
    /\ cutRes = cutAfterIndexN(<<>>, NL, 0)
    /\ ColorOff /\ MainOff

CallCut ==
    /\ cutPc = "call"
    /\ cutRes' = cutAfterIndexN(cutS, cutSep, cutN)
    /\ cutPc' = "done"
    /\ UNCHANGED <<cutS, cutSep, cutN, colorVars, mainVars>>

NextCut == CallCut

SpecCut == InitCut /\ [][NextCut]_vars

-----------------------------------------------------------------------------
(* SpecColor: colorlines applied to every source and block list *)

InitColor ==
    /\ \E inp \in ColorInputs : csrc = inp[1] /\ cblocks = inp[2]
    /\ cpc = "call"
    /\ cres = ColorStart(<<>>)
    /\ CutOff /\ MainOff

CallColorlines ==
    /\ cpc = "call"
    /\ cres' = colorlines(csrc, cblocks)
    /\ cpc' = "done"
    /\ UNCHANGED <<csrc, cblocks, cutVars, mainVars>>

NextColor == CallColorlines

SpecColor == InitColor /\ [][NextColor]_vars

-----------------------------------------------------------------------------
(* Spec: main and displayCoverage, one step per call.  pc is "main" before  *)
(* the profile is opened, "parse" before it is parsed, then the call that   *)
(* displayCoverage makes next, and "exit" when the process has ended.       *)

Init ==
    /\ pc = "main"
    /\ profiles = <<>>
    /\ golist = NotRun /\ invocations = 0 /\ dirs = NilMap
    /\ k = 0 /\ file = <<>> /\ contents = <<>> /\ stdout = <<>>
    /\ err = NoError /\ failedAt = 0 /\ exit = 0 - 1
    /\ CutOff /\ ColorOff

\* The header of a file: Printf("\n%s\n", yellow.Fg(fn)).
Header(fn) == <<NL>> \o Fg(yellow, fn) \o <<NL>>

\* main up to the reader of the profile: usage ends the process with status
\* 2, and so does a file that cannot be opened.
MainOpen ==
    /\ pc = "main"
    /\ \E a \in ArgOutcomes :
          IF a = "usage" THEN pc' = "exit" /\ err' = ErrUsage /\ exit' = 2
          ELSE IF a = "open failed" THEN pc' = "exit" /\ err' = ErrOpen /\ exit' = 2
          ELSE pc' = "parse" /\ UNCHANGED <<err, exit>>
    /\ UNCHANGED <<profiles, golist, invocations, dirs, k, file, contents, stdout,
                   failedAt, cutVars, colorVars>>

\* cover.ParseProfilesFromReader(rd): an error, which ends the process with
\* status 2, or the profiles, which main hands to displayCoverage.
MainParseProfiles ==
    /\ pc = "parse"
    /\ \/ /\ pc' = "exit" /\ err' = ErrParse /\ exit' = 2
          /\ profiles' = profiles
       \/ /\ profiles' \in ProfileLists
          /\ pc' = "findPkgs" /\ UNCHANGED <<err, exit>>
    /\ UNCHANGED <<golist, invocations, dirs, k, file, contents, stdout,
                   failedAt, cutVars, colorVars>>

\* displayCoverage calls findPkgs and returns its error; main then prints the
\* error and exits with status 2.
DisplayFindPkgs ==
    /\ pc = "findPkgs"
    /\ \E outcome \in GoListOutcomes :
          LET r == findPkgs(profiles, outcome)
          IN  /\ golist' = IF r.invoked
                            THEN [invoked |-> TRUE, list |-> r.list,
                                  runErr |-> outcome.runErr, stream |-> outcome.stream]
                            ELSE golist
              /\ invocations' = IF r.invoked THEN invocations + 1 ELSE invocations
              /\ dirs' = r.dirs
              /\ IF r.err # NoError
                 THEN pc' = "exit" /\ err' = r.err /\ exit' = 2 /\ k' = k
                 ELSE pc' = "findFile" /\ err' = err /\ exit' = exit /\ k' = 1
    /\ UNCHANGED <<profiles, file, contents, stdout, failedAt, cutVars, colorVars>>

\* The loop of displayCoverage reaches entry k and resolves its file: file
\* takes the first result of findFile, the empty path when findFile fails.
DisplayFindFile ==
    /\ pc = "findFile" /\ k <= Len(profiles)
    /\ LET r == findFile(dirs.m, profiles[k].FileName)
       IN  /\ file' = r.path
           /\ IF r.err # NoError
              THEN pc' = "exit" /\ err' = r.err /\ exit' = 2 /\ failedAt' = k
              ELSE pc' = "readFile" /\ UNCHANGED <<err, exit, failedAt>>
    /\ UNCHANGED <<profiles, golist, invocations, dirs, k, contents, stdout,
                   cutVars, colorVars>>

\* os.ReadFile with the header of the file written before the file is read.
DisplayReadFileHeaderFirst ==
    /\ pc = "readFile"
    /\ \E res \in ReadOutcomes :
          IF ~res.ok
          THEN /\ pc' = "exit" /\ err' = ErrRead(profiles[k].FileName) /\ exit' = 2
               /\ failedAt' = k /\ contents' = contents
               /\ stdout' = stdout \o Header(profiles[k].FileName)
          ELSE /\ pc' = "render" /\ contents' = Append(contents, res.data)
               /\ stdout' = stdout
               /\ UNCHANGED <<err, exit, failedAt>>
    /\ UNCHANGED <<profiles, golist, invocations, dirs, k, file,
                   cutVars, colorVars>>

\* os.ReadFile(file): the bytes of the file, or the error displayCoverage
\* returns.
DisplayReadFile ==
    /\ pc = "readFile"
    /\ \E res \in ReadOutcomes :
          IF ~res.ok
          THEN /\ pc' = "exit" /\ err' = ErrRead(profiles[k].FileName) /\ exit' = 2
               /\ failedAt' = k /\ contents' = contents
          ELSE /\ pc' = "render" /\ contents' = Append(contents, res.data)
               /\ UNCHANGED <<err, exit, failedAt>>
    /\ UNCHANGED <<profiles, golist, invocations, dirs, k, file, stdout,
                   cutVars, colorVars>>

\* The header and the body of entry k are written; a panic in colorlines ends
\* the process after what was written before it.
DisplayRender ==
    /\ pc = "render"
    /\ LET r == colorlines(contents[k], profiles[k].Blocks)
       IN  /\ stdout' = stdout \o Header(profiles[k].FileName) \o r.out
           /\ IF r.panic
              THEN pc' = "exit" /\ err' = ErrPanic /\ exit' = 2 /\ k' = k
              ELSE pc' = "findFile" /\ k' = k + 1 /\ UNCHANGED <<err, exit>>
    /\ UNCHANGED <<profiles, golist, invocations, dirs, file, contents, failedAt,
                   cutVars, colorVars>>

\* The loop is over: displayCoverage returns nil and main ends with status 0.
DisplayReturn ==
    /\ pc = "findFile" /\ k > Len(profiles)
    /\ pc' = "exit" /\ exit' = 0
    /\ UNCHANGED <<profiles, golist, invocations, dirs, k, file, contents, stdout,
                   err, failedAt, cutVars, colorVars>>

Next ==
    \/ MainOpen
    \/ MainParseProfiles
    \/ DisplayFindPkgs
    \/ DisplayFindFile
    \/ DisplayReadFile
    \/ DisplayRender
    \/ DisplayReturn

Spec == Init /\ [][Next]_vars

-----------------------------------------------------------------------------
(* Reading an output stream back: the escapes stripped, the lines colored *)

RedBg == BgPrefix(red)
GreenBg == BgPrefix(green)

RECURSIVE StripFrom(_, _)
\* out[i..] without the background escapes and the reset escapes.
StripFrom(out, i) ==
    IF i > Len(out) THEN <<>>
    ELSE IF StartsAt(out, i, RedBg) THEN StripFrom(out, i + Len(RedBg))
    ELSE IF StartsAt(out, i, GreenBg) THEN StripFrom(out, i + Len(GreenBg))
    ELSE IF StartsAt(out, i, reset) THEN StripFrom(out, i + Len(reset))
    ELSE <<out[i]>> \o StripFrom(out, i + 1)

Strip(out) == StripFrom(out, 1)

RECURSIVE PaintedFrom(_, _, _, _)
\* The pairs <<line, color>> of out[i..]: one for every byte that is not part
\* of an escape, with the 1-based line it stands on (lines end at '\n') and
\* the background in force ("none", "red" or "green").
PaintedFrom(out, i, line, color) ==
    IF i > Len(out) THEN {}
    ELSE IF StartsAt(out, i, RedBg) THEN PaintedFrom(out, i + Len(RedBg), line, "red")
    ELSE IF StartsAt(out, i, GreenBg)
    THEN PaintedFrom(out, i + Len(GreenBg), line, "green")
    ELSE IF StartsAt(out, i, reset) THEN PaintedFrom(out, i + Len(reset), line, "none")
    ELSE {<<line, color>>}
             \cup PaintedFrom(out, i + 1, IF out[i] = NL THEN line + 1 ELSE line, color)

\* The lines of out that hold a byte written under the background color.
LinesIn(out, color) == {q[1] : q \in {r \in PaintedFrom(out, 1, 1, "none") : r[2] = color}}

RECURSIVE CountByte(_, _)
CountByte(b, x) ==
    IF b = <<>> THEN 0 ELSE (IF Head(b) = x THEN 1 ELSE 0) + CountByte(Tail(b), x)

\* The number of lines of a source text; a last line need not end in '\n'.
NumLines(b) ==
    CountByte(b, NL) + (IF b # <<>> /\ b[Len(b)] # NL THEN 1 ELSE 0)

\* A block list that partitions the lines 1..N of src with no gap: it starts
\* at line 1, every block starts where the previous one ends, and the last
\* one ends past line N.
ExactPartition(src, bs) ==
    /\ Len(bs) >= 1
    /\ bs[1].StartLine = 1
    /\ \A j \in 1..Len(bs) : bs[j].StartLine < bs[j].EndLine
    /\ \A j \in 1..(Len(bs) - 1) : bs[j + 1].StartLine = bs[j].EndLine
    /\ bs[Len(bs)].EndLine = NumLines(src) + 1

\* Two consecutive blocks with StartLine_i = EndLine_{i-1}.
ZeroGap(bs) == \E j \in 1..(Len(bs) - 1) : bs[j + 1].StartLine = bs[j].EndLine

-----------------------------------------------------------------------------
(* The renderer's claims, under SpecColor and SpecCut *)

\* C1 (as claimed): for a block list that exactly partitions the lines of the
\* source, what colorlines writes, with the color and reset escapes stripped,
\* is the source, byte for byte.
C1_RoundTrip ==
    (cpc = "done" /\ ExactPartition(csrc, cblocks))
        => (~cres.panic /\ Strip(cres.out) = csrc)

RECURSIVE SplitFrom(_, _, _)
\* The lines of b[i..], each with its '\n', after the unfinished line cur.
SplitFrom(b, i, cur) ==
    IF i > Len(b) THEN (IF cur = <<>> THEN <<>> ELSE <<cur>>)
    ELSE IF b[i] = NL THEN <<Append(cur, NL)>> \o SplitFrom(b, i + 1, <<>>)
    ELSE SplitFrom(b, i + 1, Append(cur, b[i]))

\* The bytes of the 1-based lines from..to of a text.
LinesOf(b, from, to) == Concat(SubSeq(SplitFrom(b, 1, <<>>), from, to))

\* What colorlines did with a single block: the bytes it wrote with no
\* background before the block, the chunk it wrapped in the background of the
\* block, and the bytes it wrote after the block behind a reset.
PlainBefore == cres.cuts[1].before
ColoredChunk == cres.paints[1].chunk
PlainAfter == cres.cuts[2].after
SingleBlockWritten(b) ==
    /\ ~cres.panic /\ Len(cres.cuts) = 2 /\ Len(cres.paints) = 1
    /\ cres.paints[1].written = Printf(Bg(IF b.Count = 0 THEN red ELSE green, ColoredChunk))
    /\ cres.out = PlainBefore \o cres.paints[1].written
                      \o (IF PlainAfter = <<>> THEN <<>> ELSE reset \o PlainAfter \o <<NL>>)

\* C2 (as claimed): a single block {s, e} on a file of at least e lines colors
\* exactly the lines s..e-1, in red when Count = 0 and in green otherwise, and
\* leaves the lines before s and from e on uncolored.
C2_ColorsStartToEndMinusOne ==
    (cpc = "done" /\ Len(cblocks) = 1 /\ cblocks[1].EndLine <= NumLines(csrc))
        => LET b == cblocks[1]
               text == ReplaceAll(csrc, TAB, TwoSpaces)
           IN  /\ SingleBlockWritten(b)
               /\ PlainBefore = LinesOf(text, 1, b.StartLine - 1)
               /\ ColoredChunk = LinesOf(text, b.StartLine, b.EndLine - 1)
               /\ PlainAfter = LinesOf(text, b.EndLine, NumLines(csrc))

\* C2 (amended): a single block {s, e} with 1 <= s < e on a file of at least e
\* lines colors exactly the lines s+1..e, in red when Count = 0 and in green
\* otherwise, and leaves the lines 1..s and the lines after e uncolored (the
\* lines being those of the source with its tabs replaced); the block
\* {3, 6, 0} on the eight-line file colors the lines 4..6 red.
C2_ColorsAfterStartToEnd ==
    (/\ cpc = "done" /\ Len(cblocks) = 1
     /\ 1 <= cblocks[1].StartLine /\ cblocks[1].StartLine < cblocks[1].EndLine
     /\ cblocks[1].EndLine <= NumLines(csrc))
        => LET b == cblocks[1]
               text == ReplaceAll(csrc, TAB, TwoSpaces)
           IN  /\ SingleBlockWritten(b)
               /\ PlainBefore = LinesOf(text, 1, b.StartLine)
               /\ ColoredChunk = LinesOf(text, b.StartLine + 1, b.EndLine)
               /\ PlainAfter = LinesOf(text, b.EndLine + 1, NumLines(csrc))

\* C2 witness: the block {3, 6, 0} has been applied to the eight-line file;
\* the chunk wrapped in red is the lines 4..6, and in what was written the
\* lines 4, 5 and 6 are red and the lines 1..3 and 7..8 have no background.
C2_Witness ==
    /\ cpc = "done" /\ csrc = EightLines /\ cblocks = EightLinesBlocks
    /\ ColoredChunk = LinesOf(EightLines, 4, 6)
    /\ LinesIn(cres.out, "red") = {4, 5, 6}
    /\ LinesIn(cres.out, "green") = {}
    /\ {1, 2, 3, 7, 8} \subseteq LinesIn(cres.out, "none")

\* Every block spans at least one line and lies within the lines of src.
WithinFile(src, bs) ==
    \A j \in 1..Len(bs) :
        /\ 1 <= bs[j].StartLine /\ bs[j].StartLine < bs[j].EndLine
        /\ bs[j].EndLine <= NumLines(src)

\* C3 (as claimed): when two consecutive blocks of a file are adjacent,
\* colorlines calls cutAfterIndexN with n <= 0, and every such call leaves the
\* cursor where it was, so that the blocks that follow still find their lines
\* to cut and colorlines runs to its end.
C3_ZeroGapKeepsCursor ==
    (cpc = "done" /\ ZeroGap(cblocks) /\ WithinFile(csrc, cblocks))
        => /\ \E j \in 1..Len(cres.cuts) : cres.cuts[j].n <= 0
           /\ \A j \in 1..Len(cres.cuts) :
                 cres.cuts[j].n <= 0 => cres.cuts[j].after = cres.cuts[j].s
           /\ ~cres.panic

\* C9 (as claimed): cutAfterIndexN splits any buffer at a position i with
\* 0 <= i <= len(s), and before followed by after is s.
C9_NoOverrun ==
    cutPc = "done"
        => /\ ~cutRes.panic
           /\ 0 <= cutRes.i /\ cutRes.i <= Len(cutS)
           /\ cutRes.before \o cutRes.after = cutS

\* C10 (as claimed): a colored chunk is written as the background escape, the
\* chunk's bytes unchanged, and the reset.
C10_ColoredChunksVerbatim ==
    cpc = "done"
        => \A j \in 1..Len(cres.paints) :
              cres.paints[j].written
                  = (IF cres.paints[j].Count = 0 THEN RedBg ELSE GreenBg)
                        \o cres.paints[j].chunk \o reset

-----------------------------------------------------------------------------
(* The claims about displayCoverage, findPkgs and findFile, under Spec *)

RECURSIVE ExpectedOut(_)
\* Header and body of the first j profile entries, each body being what
\* colorlines writes for the bytes read and the blocks of the entry.
ExpectedOut(j) ==
    IF j = 0 THEN <<>>
    ELSE ExpectedOut(j - 1) \o Header(profiles[j].FileName)
             \o colorlines(contents[j], profiles[j].Blocks).out

\* Whether go list printed a well-formed record for import path ip.
HasRecord(ip) ==
    \E j \in 1..Len(golist.stream) :
        ~golist.stream[j].bad /\ golist.stream[j].pkg.ImportPath = ip

\* Entry i has been resolved: the loop stands at its read or its rendering, or
\* is past it.
Resolved(i) == k > i \/ (k = i /\ pc \in {"readFile", "render"})

\* C4: the entries are handled one at a time in profile order, and when the
\* resolution or the read of entry k fails the process ends at once with
\* status 2, the header and body of the entries 1..k-1 written in full and
\* nothing written for entry k or a later one.
C4_FailFast ==
    /\ pc \in {"findFile", "readFile", "render"} => stdout = ExpectedOut(k - 1)
    /\ failedAt # 0 =>
          /\ pc = "exit" /\ exit = 2 /\ err # NoError /\ k = failedAt
          /\ Len(contents) = failedAt - 1
          /\ stdout = ExpectedOut(failedAt - 1)

\* C4 witness: the first file was written and the second failed.
C4_Witness ==
    /\ failedAt = 2 /\ pc = "exit" /\ exit = 2
    /\ stdout = ExpectedOut(1) /\ stdout # <<>>

\* C5: after go list answered with records for only some of the packages it
\* was asked, a file whose package has no decoded record is not resolved:
\* findFile fails with the package-not-found error and returns no path.
C5_MissingPackageNotFound ==
    (golist.invoked /\ ~dirs.isNil) =>
        \A i \in 1..Len(profiles) :
            LET fn == profiles[i].FileName
            IN  (~IsRelOrAbs(fn) /\ ~HasRecord(Dir(fn))) =>
                    /\ findFile(dirs.m, fn) = [path |-> <<>>, err |-> ErrNotFound(fn)]
                    /\ ~Resolved(i)
                    /\ failedAt = i => (err = ErrNotFound(fn) /\ file = <<>>)

\* C5 witness: go list was asked two packages and answered with a record for
\* one; the file of the other failed with the package-not-found error.
C5_Witness ==
    /\ golist.invoked /\ Len(golist.list) = 2 /\ Len(golist.stream) = 1
    /\ HasRecord(golist.list[1])
    /\ failedAt = 2 /\ err = ErrNotFound(profiles[2].FileName)

\* C6: for a file whose package has a map entry, an entry with no directory
\* and an error message m makes findFile fail with exactly the message m and
\* no path; an entry with a directory makes it succeed with the directory
\* joined with the base name, with or without an error message.
C6_ResolutionError ==
    ~dirs.isNil =>
        \A i \in 1..Len(profiles) :
            LET fn == profiles[i].FileName
                pkg == MapGet(dirs.m, Dir(fn))
            IN  (~IsRelOrAbs(fn) /\ pkg # <<>>) =>
                    /\ (pkg[1].Dir = <<>> /\ pkg[1].Error # <<>>) =>
                          /\ findFile(dirs.m, fn).path = <<>>
                          /\ findFile(dirs.m, fn).err.kind = "errors.New"
                          /\ findFile(dirs.m, fn).err.text = pkg[1].Error[1].Err
                          /\ ~Resolved(i)
                          /\ failedAt = i =>
                                (err = findFile(dirs.m, fn).err /\ file = <<>>)
                    /\ pkg[1].Dir # <<>> =>
                          /\ findFile(dirs.m, fn)
                                = [path |-> Join(pkg[1].Dir, Base(fn)),
                                   err |-> NoError]
                          /\ (k = i /\ pc \in {"readFile", "render"}) =>
                                file = Join(pkg[1].Dir, Base(fn))
                          /\ failedAt = i => err.kind = "can't read"

\* C6 witness: the first file was resolved to "/d/f" through a record that
\* carries a directory and an error message, was read and written, and the
\* second failed, with no path, with the message "build failed" of a record
\* that carries no directory.
C6_Witness ==
    /\ failedAt = 2 /\ err = ErrorsNew(BuildFailed) /\ file = <<>>
    /\ findFile(dirs.m, profiles[1].FileName)
           = [path |-> <<47, 100, 47, 102>>, err |-> NoError]
    /\ Len(contents) = 1 /\ stdout = ExpectedOut(1)
    /\ MapGet(dirs.m, Dir(profiles[1].FileName))[1].Error # <<>>

\* Maps to probe findFile with: the empty map, and maps that hold a record
\* under the keys "." and "/", the directories of "./f" and "/f".
ProbeMaps ==
    {EmptyMap} \cup {[x \in {<<46>>, <<47>>} |-> <<r>>] : r \in PkgRecords}

\* findPkgs has returned: displayCoverage is in its loop, or the process
\* ended, and not in main before displayCoverage was called.
FindPkgsReturned ==
    \/ pc \in {"findFile", "readFile", "render"}
    \/ pc = "exit" /\ err \notin {ErrUsage, ErrOpen, ErrParse}

\* C7: when every file name of the profile is relative or absolute, findPkgs
\* returns an empty map and no error and go list is never run, and findFile
\* returns every file name unchanged whatever the map holds.
C7_RelativeBypass ==
    (FindPkgsReturned /\ \A i \in 1..Len(profiles) : IsRelOrAbs(profiles[i].FileName))
        => /\ ~dirs.isNil /\ DOMAIN dirs.m = {}
           /\ invocations = 0 /\ ~golist.invoked
           /\ err.kind \in {"nil", "can't read", "panic"}
           /\ \A i \in 1..Len(profiles) :
                 /\ \A m \in ProbeMaps :
                       findFile(m, profiles[i].FileName)
                           = [path |-> profiles[i].FileName, err |-> NoError]
                 /\ (k = i /\ pc \in {"readFile", "render"}) =>
                       file = profiles[i].FileName

\* C7 witness: a relative and an absolute file were both written, and go
\* list was never run.
C7_Witness ==
    /\ Len(profiles) = 2 /\ \A i \in 1..2 : IsRelOrAbs(profiles[i].FileName)
    /\ pc = "exit" /\ exit = 0 /\ invocations = 0 /\ stdout = ExpectedOut(2)

\* C8: when go list cannot be run, or prints a malformed value, even after
\* well-formed records, findPkgs returns an error and no map, and
\* displayCoverage writes no file.
C8_AllOrNothing ==
    (golist.invoked /\ (golist.runErr \/ \E j \in 1..Len(golist.stream) :
                                            golist.stream[j].bad))
        => /\ dirs.isNil /\ DOMAIN dirs.m = {}
           /\ err \in {ErrGoList, ErrDecode}
           /\ pc = "exit" /\ exit = 2
           /\ stdout = <<>> /\ contents = <<>> /\ file = <<>>

\* C8 witness: go list printed a well-formed record and then a malformed
\* value, and the process ended with no map and nothing written.
C8_Witness ==
    /\ golist.invoked /\ Len(golist.stream) = 2
    /\ ~golist.stream[1].bad /\ golist.stream[2].bad
    /\ dirs.isNil /\ err = ErrDecode /\ pc = "exit" /\ stdout = <<>>

====
